---- MODULE Spec2Model ----
(***************************************************************************)
(* Model of the GitHub agent's A2A bridge: the part-format bridge          *)
(* (adk_agent_executor.py, the convert functions), the execution bridge   *)
(* (ADKAgentExecutor) and the GitHub query tools (github_toolset.py).      *)
(*                                                                         *)
(* Python's None is the string "None" in a field that otherwise holds a    *)
(* string, and a record with set = FALSE / type = "None" in a field that   *)
(* otherwise holds an object, so that every field has one shape.           *)
(***************************************************************************)
EXTENDS Integers, Sequences, FiniteSets, TLC

VARIABLES
    \* ---- task execution bridge, one entry per invocation slot
    pc,          \* where the execute coroutine of the slot stands
    req,         \* its RequestContext
    stream,      \* the events runner.run_async yields for it, in order
    pos,         \* how many of them the async-for has taken
    new_message, \* the converted user content handed to the run
    sess,        \* the session _upsert_session returned (its key)
    err,         \* the exception that ended the invocation, "None" if none
    log,         \* what the TaskUpdater enqueued, in order
    cancelErr,   \* the error the last cancel() of the slot raised
    sessions,    \* the session service's store
    \* ---- part-format bridge, applied to one input
    pin, pmid, pout,
    \* ---- GitHub query tools, one call
    tcall, tret

bridgeVars == <<pc, req, stream, pos, new_message, sess, err, log, cancelErr, sessions>>
partVars == <<pin, pmid, pout>>
toolVars == <<tcall, tret>>
vars == <<bridgeVars, partVars, toolVars>>

\* ---------------------------------------------------------------- bounds
NumInv == 2        \* invocation slots
MaxEvents == 2     \* longest event stream of one agent run
MaxParts == 2      \* longest part sequence given to the part bridge
MaxItems == 2      \* longest result listing the GitHub client returns

SeqsUpTo(S, n) == UNION {[1..k -> S] : k \in 0..n}

\* ------------------------------------------------------ a2a.types (protocol)
NoFile == [type |-> "None", uri |-> "None", bytes |-> "None", mime_type |-> "None"]
FileWithUri(u, m) == [type |-> "FileWithUri", uri |-> u, bytes |-> "None", mime_type |-> m]
FileWithBytes(b, m) == [type |-> "FileWithBytes", uri |-> "None", bytes |-> b, mime_type |-> m]
\* A file of neither kind: what the isinstance chain of the bridge rejects.
OtherFile == [type |-> "Other", uri |-> "None", bytes |-> "None", mime_type |-> "None"]

\* wrapper = "Part" is Part(root=...); wrapper = "None" is the bare TextPart/FilePart.
TextPart(t) == [wrapper |-> "None", type |-> "TextPart", text |-> t, file |-> NoFile]
FilePart(f) == [wrapper |-> "None", type |-> "FilePart", text |-> "None", file |-> f]
DataPart == [wrapper |-> "None", type |-> "DataPart", text |-> "None", file |-> NoFile]
Part(root) == [root EXCEPT !.wrapper = "Part"]

\* ------------------------------------------------- google.genai.types (model)
NoFileData == [set |-> FALSE, file_uri |-> "None", mime_type |-> "None"]
FileData(u, m) == [set |-> TRUE, file_uri |-> u, mime_type |-> m]
NoBlob == [set |-> FALSE, data |-> "None", mime_type |-> "None"]
Blob(d, m) == [set |-> TRUE, data |-> d, mime_type |-> m]
GenaiPart(t, f, b) == [text |-> t, file_data |-> f, inline_data |-> b]

\* Python truthiness of the three fields: None and "" are falsy, an object is truthy.
TruthyText(t) == t \notin {"None", ""}
Truthy(o) == o.set

\* A call's outcome: the value it returned, or the exception it raised.
Return(ps) == [st |-> "ok", parts |-> ps]
Raise(e) == [st |-> e, parts |-> <<>>]
NotRun == [st |-> "none", parts |-> <<>>]

\* ------------------------------------------------------- part-format bridge
convert_a2a_part_to_genai(part) ==
    IF part.wrapper # "Part" THEN Raise("AttributeError")    \* part.root
    ELSE IF part.type = "TextPart"
        THEN Return(<<GenaiPart(part.text, NoFileData, NoBlob)>>)
    ELSE IF part.type = "FilePart"
        THEN IF part.file.type = "FileWithUri"
                THEN Return(<<GenaiPart("None", FileData(part.file.uri, part.file.mime_type), NoBlob)>>)
             ELSE IF part.file.type = "FileWithBytes"
                THEN Return(<<GenaiPart("None", NoFileData, Blob(part.file.bytes, part.file.mime_type))>>)
             ELSE Raise("ValueError")
    ELSE Raise("ValueError")

RECURSIVE convert_a2a_parts_to_genai(_)
convert_a2a_parts_to_genai(parts) ==
    IF parts = <<>> THEN Return(<<>>)
    ELSE LET h == convert_a2a_part_to_genai(Head(parts)) IN
         IF h.st # "ok" THEN h
         ELSE LET t == convert_a2a_parts_to_genai(Tail(parts)) IN
              IF t.st # "ok" THEN t ELSE Return(h.parts \o t.parts)

convert_genai_part_to_a2a(part) ==
    IF TruthyText(part.text) THEN Return(<<TextPart(part.text)>>)
    ELSE IF Truthy(part.file_data)
        THEN Return(<<FilePart(FileWithUri(part.file_data.file_uri, part.file_data.mime_type))>>)
    ELSE IF Truthy(part.inline_data)
        THEN Return(<<Part(FilePart(FileWithBytes(part.inline_data.data, part.inline_data.mime_type)))>>)
    ELSE Raise("ValueError")

\* The comprehension's filter: if (part.text or part.file_data or part.inline_data).
Kept(part) == TruthyText(part.text) \/ Truthy(part.file_data) \/ Truthy(part.inline_data)

\* The comprehension without its filter: every part is converted.
RECURSIVE convert_genai_parts_unfiltered(_)
convert_genai_parts_unfiltered(parts) ==
    IF parts = <<>> THEN Return(<<>>)
    ELSE LET h == convert_genai_part_to_a2a(Head(parts)) IN
         IF h.st # "ok" THEN h
         ELSE LET t == convert_genai_parts_unfiltered(Tail(parts)) IN
              IF t.st # "ok" THEN t ELSE Return(h.parts \o t.parts)

RECURSIVE convert_genai_parts_to_a2a(_)
convert_genai_parts_to_a2a(parts) ==
    IF parts = <<>> THEN Return(<<>>)
    ELSE IF ~Kept(Head(parts)) THEN convert_genai_parts_to_a2a(Tail(parts))
    ELSE LET h == convert_genai_part_to_a2a(Head(parts)) IN
         IF h.st # "ok" THEN h
         ELSE LET t == convert_genai_parts_to_a2a(Tail(parts)) IN
              IF t.st # "ok" THEN t ELSE Return(h.parts \o t.parts)

\* ---- the inputs the part bridge is tried on
A2AParts ==
    { Part(TextPart("hello")), Part(TextPart("")),
      Part(FilePart(FileWithUri("gs://f", "image/png"))),
      Part(FilePart(FileWithBytes("QUJD", "None"))),
      Part(FilePart(OtherFile)),
      Part(DataPart) }

GenaiParts ==
    { GenaiPart(t, f, b) :
        t \in {"None", "", "hi"},
        f \in {NoFileData, FileData("gs://f", "image/png")},
        b \in {NoBlob, Blob("QUJD", "None")} }

PartInputs ==
    { [side |-> "a2a", parts |-> s] : s \in SeqsUpTo(A2AParts, MaxParts) }
      \cup { [side |-> "genai", parts |-> s] : s \in SeqsUpTo(GenaiParts, MaxParts) }

PartsIdle ==
    /\ pin = [side |-> "none", parts |-> <<>>]
    /\ pmid = NotRun
    /\ pout = NotRun

PartsInit ==
    /\ pin \in PartInputs
    /\ pmid = NotRun
    /\ pout = NotRun

\* The first conversion of the input, in the direction its side asks for.
ConvertIn ==
    /\ pin.side # "none"
    /\ pmid = NotRun
    /\ pmid' = IF pin.side = "a2a" THEN convert_a2a_parts_to_genai(pin.parts)
               ELSE convert_genai_parts_to_a2a(pin.parts)
    /\ UNCHANGED <<pin, pout>>

\* The conversion back of what the first one returned.
ConvertBack ==
    /\ pmid.st = "ok"
    /\ pout = NotRun
    /\ pout' = IF pin.side = "a2a" THEN convert_genai_parts_to_a2a(pmid.parts)
               ELSE convert_a2a_parts_to_genai(pmid.parts)
    /\ UNCHANGED <<pin, pmid>>

\* ------------------------------------------------- task execution bridge
Inv == 1..NumInv

AppName == "GitHub Agent"
Contexts == {"ctx1", "ctx2"}

NoCallContext == [set |-> FALSE, is_authenticated |-> FALSE, username |-> "None"]
ServerCallContext(auth, name) == [set |-> TRUE, is_authenticated |-> auth, username |-> name]
CallContexts == {NoCallContext, ServerCallContext(FALSE, ""), ServerCallContext(TRUE, "alice")}

TextMessage == <<Part(TextPart("show my repos"))>>
DataMessage == <<Part(TextPart("see attached")), Part(DataPart)>>
Messages == {TextMessage, DataMessage}

RequestContext(c, cc, t, m) ==
    [context_id |-> c, call_context |-> cc, current_task |-> t, message |-> m]
NoRequest == RequestContext("None", NoCallContext, FALSE, <<>>)
\* The requests of the given conversations, with the given answers to "does the
\* task exist" and the given messages.
Requests(Cs, Ts, Ms) ==
    { RequestContext(c, cc, t, m) :
        c \in Cs, cc \in CallContexts, t \in Ts, m \in Ms }

\* An event of the agent run: is_final_response(), get_function_calls() (whether
\* the list is non-empty) and content.parts.
Event(f, c, ps) == [final |-> f, calls |-> c, parts |-> ps]
EmptyPart == GenaiPart("None", NoFileData, NoBlob)
InterimText == Event(FALSE, FALSE, <<GenaiPart("looking", NoFileData, NoBlob)>>)
InterimFile == Event(FALSE, FALSE, <<EmptyPart, GenaiPart("None", FileData("gs://f", "image/png"), NoBlob)>>)
ToolCall == Event(FALSE, TRUE, <<GenaiPart("calling", NoFileData, NoBlob), EmptyPart>>)
FinalText == Event(TRUE, FALSE, <<GenaiPart("3 repos", NoFileData, NoBlob)>>)
FinalLongRunning == Event(TRUE, TRUE, <<EmptyPart, GenaiPart("started", NoFileData, NoBlob)>>)
EventAlphabet == {InterimText, InterimFile, ToolCall, FinalText, FinalLongRunning}
Streams == SeqsUpTo(EventAlphabet, MaxEvents)

\* What the TaskUpdater enqueues. ev is the position in the stream of the event
\* that caused the emission, 0 for the emissions made before the run.
Status(state, hasMessage, ps, n) ==
    [kind |-> "status", state |-> state, message |-> hasMessage, parts |-> ps, ev |-> n]
Artifact(ps, n) ==
    [kind |-> "artifact", state |-> "None", message |-> FALSE, parts |-> ps, ev |-> n]

\* The session service's store: one record per stored session. used says that a
\* run has recorded a turn in it.
Key(user_id, context_id) == <<AppName, user_id, context_id>>
NoSession == <<>>
Session(k, u) == [key |-> k, used |-> u]
Stored(k) == {s \in sessions : s.key = k}

\* _upsert_session, lines 92-94
user_id(context) ==
    IF context.call_context.set /\ context.call_context.is_authenticated
    THEN context.call_context.username
    ELSE "anonymous"

SessionKey(i) == Key(user_id(req[i]), req[i].context_id)

BridgeInit ==
    /\ pc = [i \in Inv |-> "idle"]
    /\ req = [i \in Inv |-> NoRequest]
    /\ stream = [i \in Inv |-> <<>>]
    /\ pos = [i \in Inv |-> 0]
    /\ new_message = [i \in Inv |-> <<>>]
    /\ sess = [i \in Inv |-> NoSession]
    /\ err = [i \in Inv |-> "None"]
    /\ log = [i \in Inv |-> <<>>]
    /\ cancelErr = [i \in Inv |-> "None"]
    /\ sessions = {}

\* The server hands a message to execute(): the request and the stream the agent
\* run will yield for it. With overlap = FALSE a message is taken only when no
\* other invocation is in flight.
Execute(i, Rs, Ss, overlap) ==
    /\ pc[i] = "idle"
    /\ overlap \/ \A j \in Inv : pc[j] = "idle"
    /\ \E r \in Rs, s \in Ss :
        /\ req' = [req EXCEPT ![i] = r]
        /\ stream' = [stream EXCEPT ![i] = s]
    /\ pc' = [pc EXCEPT ![i] = "begin"]
    /\ UNCHANGED <<pos, new_message, sess, err, log, cancelErr, sessions>>

\* Submit without the current_task test: a resubmission is announced again.
SubmitAlways(i) ==
    /\ pc[i] = "begin"
    /\ log' = [log EXCEPT ![i] = Append(@, Status("submitted", FALSE, <<>>, 0))]
    /\ pc' = [pc EXCEPT ![i] = "start_work"]
    /\ UNCHANGED <<req, stream, pos, new_message, sess, err, cancelErr, sessions>>

\* if not context.current_task: await updater.submit()
Submit(i) ==
    /\ pc[i] = "begin"
    /\ ~req[i].current_task
    /\ log' = [log EXCEPT ![i] = Append(@, Status("submitted", FALSE, <<>>, 0))]
    /\ pc' = [pc EXCEPT ![i] = "start_work"]
    /\ UNCHANGED <<req, stream, pos, new_message, sess, err, cancelErr, sessions>>

\* StartWork with the start_work() call left out.
StartWorkSilent(i) ==
    /\ \/ pc[i] = "start_work"
       \/ pc[i] = "begin" /\ req[i].current_task
    /\ pc' = [pc EXCEPT ![i] = "convert"]
    /\ UNCHANGED <<req, stream, pos, new_message, sess, err, log, cancelErr, sessions>>

\* await updater.start_work()
StartWork(i) ==
    /\ \/ pc[i] = "start_work"
       \/ pc[i] = "begin" /\ req[i].current_task
    /\ log' = [log EXCEPT ![i] = Append(@, Status("working", FALSE, <<>>, 0))]
    /\ pc' = [pc EXCEPT ![i] = "convert"]
    /\ UNCHANGED <<req, stream, pos, new_message, sess, err, cancelErr, sessions>>

\* types.UserContent(parts=convert_a2a_parts_to_genai(context.message.parts)),
\* evaluated before _process_request is entered.
ConvertMessage(i) ==
    /\ pc[i] = "convert"
    /\ LET r == convert_a2a_parts_to_genai(req[i].message) IN
        IF r.st = "ok"
        THEN /\ new_message' = [new_message EXCEPT ![i] = r.parts]
             /\ pc' = [pc EXCEPT ![i] = "get_session"]
             /\ err' = err
        ELSE /\ err' = [err EXCEPT ![i] = r.st]
             /\ pc' = [pc EXCEPT ![i] = "failed"]
             /\ new_message' = new_message
    /\ UNCHANGED <<req, stream, pos, sess, log, cancelErr, sessions>>

\* AfterGet without the get: create_session is called for every message.
AfterGetAlwaysCreate(found) == "create_session"

\* Where _upsert_session goes after get_session answered: to the run when a
\* session was returned, to create_session otherwise.
AfterGet(found) == IF found THEN "run_async" ELSE "create_session"

\* await self.runner.session_service.get_session(...) or ...
GetSession(i) ==
    /\ pc[i] = "get_session"
    /\ LET found == Stored(SessionKey(i)) # {} IN
        /\ pc' = [pc EXCEPT ![i] = AfterGet(found)]
        /\ sess' = [sess EXCEPT ![i] = IF found THEN SessionKey(i) ELSE NoSession]
    /\ UNCHANGED <<req, stream, pos, new_message, err, log, cancelErr, sessions>>

\* What create_session can answer. For a key the store does not hold it stores a
\* new session. For a key it already holds, the bridge fixes nothing: the service
\* may store a fresh session in place of the old one, refuse with an error, or
\* hand back the one it holds.
CreateAnswers(k) ==
    IF Stored(k) = {} THEN {"created"} ELSE {"replaced", "AlreadyExistsError", "kept"}

\* ... or await self.runner.session_service.create_session(...)
CreateSession(i) ==
    /\ pc[i] = "create_session"
    /\ \E a \in CreateAnswers(SessionKey(i)) :
        IF a = "AlreadyExistsError"
        THEN /\ err' = [err EXCEPT ![i] = a]
             /\ pc' = [pc EXCEPT ![i] = "failed"]
             /\ UNCHANGED <<sess, sessions>>
        ELSE /\ sessions' = IF a = "kept" THEN sessions
                            ELSE (sessions \ Stored(SessionKey(i)))
                                    \cup {Session(SessionKey(i), FALSE)}
             /\ sess' = [sess EXCEPT ![i] = SessionKey(i)]
             /\ pc' = [pc EXCEPT ![i] = "run_async"]
             /\ err' = err
    /\ UNCHANGED <<req, stream, pos, new_message, log, cancelErr>>

\* self.runner.run_async(session_id=session.id, user_id=session.user_id,
\* new_message=new_message): the run records the user turn in the stored session.
RunAsync(i) ==
    /\ pc[i] = "run_async"
    /\ sessions' = (sessions \ Stored(sess[i])) \cup {Session(sess[i], TRUE)}
    /\ pc' = [pc EXCEPT ![i] = "loop"]
    /\ UNCHANGED <<req, stream, pos, new_message, sess, err, log, cancelErr>>

\* OnEvent without the get_function_calls() test: every non-final event is
\* published as an update.
OnEventNoCallCheck(event, n) ==
    IF event.final
    THEN [emit |-> <<Artifact(convert_genai_parts_to_a2a(event.parts).parts, n)>>,
          next |-> "complete"]
    ELSE [emit |-> <<Status("working", TRUE, convert_genai_parts_to_a2a(event.parts).parts, n)>>,
          next |-> "loop"]

\* What one event makes the loop body publish first, and where the body goes on.
OnEvent(event, n) ==
    IF event.final
    THEN [emit |-> <<Artifact(convert_genai_parts_to_a2a(event.parts).parts, n)>>,
          next |-> "complete"]
    ELSE IF ~event.calls
    THEN [emit |-> <<Status("working", TRUE, convert_genai_parts_to_a2a(event.parts).parts, n)>>,
          next |-> "loop"]
    ELSE [emit |-> <<>>, next |-> "loop"]

\* NextEvent that marks the task completed when the stream ends without a
\* final response.
NextEventCompletesAtEnd(i) ==
    /\ pc[i] = "loop"
    /\ IF pos[i] < Len(stream[i])
       THEN LET o == OnEvent(stream[i][pos[i] + 1], pos[i] + 1) IN
            /\ pos' = [pos EXCEPT ![i] = @ + 1]
            /\ log' = [log EXCEPT ![i] = @ \o o.emit]
            /\ pc' = [pc EXCEPT ![i] = o.next]
       ELSE /\ pc' = [pc EXCEPT ![i] = "complete"]
            /\ UNCHANGED <<pos, log>>
    /\ UNCHANGED <<req, stream, new_message, sess, err, cancelErr, sessions>>

\* One turn of the async for: the next event is taken and the body runs up to
\* its first await (add_artifact or update_status); a stream that has ended
\* ends the loop and execute returns.
NextEvent(i) ==
    /\ pc[i] = "loop"
    /\ IF pos[i] < Len(stream[i])
       THEN LET o == OnEvent(stream[i][pos[i] + 1], pos[i] + 1) IN
            /\ pos' = [pos EXCEPT ![i] = @ + 1]
            /\ log' = [log EXCEPT ![i] = @ \o o.emit]
            /\ pc' = [pc EXCEPT ![i] = o.next]
       ELSE /\ pc' = [pc EXCEPT ![i] = "done"]
            /\ UNCHANGED <<pos, log>>
    /\ UNCHANGED <<req, stream, new_message, sess, err, cancelErr, sessions>>

\* AfterComplete without the break: the loop takes the next event.
AfterCompleteNoBreak == "loop"

\* Where the loop goes after task_updater.complete(): break.
AfterComplete == "done"

\* await task_updater.complete(); break
Complete(i) ==
    /\ pc[i] = "complete"
    /\ log' = [log EXCEPT ![i] = Append(@, Status("completed", FALSE, <<>>, pos[i]))]
    /\ pc' = [pc EXCEPT ![i] = AfterComplete]
    /\ UNCHANGED <<req, stream, pos, new_message, sess, err, cancelErr, sessions>>

\* execute has returned or raised: the server has drained the queue and the slot
\* is free for the next message.
Exit(i) ==
    /\ pc[i] \in {"done", "failed"}
    /\ pc' = [pc EXCEPT ![i] = "idle"]
    /\ req' = [req EXCEPT ![i] = NoRequest]
    /\ stream' = [stream EXCEPT ![i] = <<>>]
    /\ pos' = [pos EXCEPT ![i] = 0]
    /\ new_message' = [new_message EXCEPT ![i] = <<>>]
    /\ sess' = [sess EXCEPT ![i] = NoSession]
    /\ err' = [err EXCEPT ![i] = "None"]
    /\ log' = [log EXCEPT ![i] = <<>>]
    /\ cancelErr' = [cancelErr EXCEPT ![i] = "None"]
    /\ UNCHANGED sessions

\* Cancel that also stops the running invocation ("kill any ongoing tasks").
CancelStops(i) ==
    /\ cancelErr[i] = "None"
    /\ cancelErr' = [cancelErr EXCEPT ![i] = "UnsupportedOperationError"]
    /\ pc' = [pc EXCEPT ![i] = IF @ = "idle" THEN @ ELSE "done"]
    /\ UNCHANGED <<req, stream, pos, new_message, sess, err, log, sessions>>

\* raise ServerError(error=UnsupportedOperationError())
Cancel(i) ==
    /\ cancelErr[i] = "None"
    /\ cancelErr' = [cancelErr EXCEPT ![i] = "UnsupportedOperationError"]
    /\ UNCHANGED <<pc, req, stream, pos, new_message, sess, err, log, sessions>>

\* --------------------------------------------------------- GitHub query tools
Operations == {"get_user_repositories", "get_recent_commits", "search_repositories"}

\* f'Failed to ...: {str(e)}': the literal and the text of the exception.
Message(prefix, cause) == [prefix |-> prefix, cause |-> cause]
NoMessage == Message("None", "None")

\* Where the GitHub client raises during a call: building the client, looking
\* up the user, the repository or the search, or fetching the listing.
FailPoints == {"None", "client", "lookup", "iterate"}

\* One entry of the listing the client yields: whether the repository was
\* updated on or after the cutoff date.
Listings == SeqsUpTo([recent : BOOLEAN], MaxItems)

ToolCalls ==
    [op : Operations, limit : 1..MaxItems, fail : FailPoints, listing : Listings]

\* One dict of a returned list: a repository or commit record, or {'error': ...}.
Record(kind) == [kind |-> kind, error |-> NoMessage]
ErrorDict(prefix, cause) == [kind |-> "error", error |-> Message(prefix, cause)]
\* What a tool returns, a list of dicts.
List(items) == [type |-> "list", status |-> "None", error_message |-> NoMessage, items |-> items]
NotCalled == [type |-> "None", status |-> "None", error_message |-> NoMessage, items |-> <<>>]

\* for repo in user.get_repos(...): break at the limit, keep the recent ones.
RECURSIVE RecentRepos(_, _, _)
RecentRepos(listing, limit, repos) ==
    IF listing = <<>> \/ Len(repos) >= limit THEN repos
    ELSE RecentRepos(Tail(listing), limit,
                     IF Head(listing).recent THEN Append(repos, Record("repository")) ELSE repos)

\* for commit in repo.get_commits(since=cutoff_date): break at the limit.
RECURSIVE RecentCommits(_, _, _)
RecentCommits(listing, limit, commits) ==
    IF listing = <<>> \/ Len(commits) >= limit THEN commits
    ELSE RecentCommits(Tail(listing), limit, Append(commits, Record("commit")))

\* for repo in results[:limit]
FoundRepos(listing, limit) ==
    [k \in 1..(IF Len(listing) < limit THEN Len(listing) ELSE limit) |-> Record("repository")]

\* The try block of a tool: any exception of the client ends in the except
\* clause, which returns a one-element list holding {'error': prefix + str(e)}.
Try(call, prefix, items) ==
    IF call.fail # "None" THEN List(<<ErrorDict(prefix, call.fail)>>) ELSE List(items)

_get_user_repositories(call) ==
    Try(call, "Failed to get repositories: ", RecentRepos(call.listing, call.limit, <<>>))

_get_recent_commits(call) ==
    Try(call, "Failed to get commits: ", RecentCommits(call.listing, call.limit, <<>>))

_search_repositories(call) ==
    Try(call, "Failed to search repositories: ", FoundRepos(call.listing, call.limit))

ToolsIdle ==
    /\ tcall = [op |-> "None", limit |-> 1, fail |-> "None", listing |-> <<>>]
    /\ tret = NotCalled

ToolsInit ==
    /\ tcall \in ToolCalls
    /\ tret = NotCalled

GetUserRepositories ==
    /\ tcall.op = "get_user_repositories"
    /\ tret = NotCalled
    /\ tret' = _get_user_repositories(tcall)
    /\ UNCHANGED tcall

GetRecentCommits ==
    /\ tcall.op = "get_recent_commits"
    /\ tret = NotCalled
    /\ tret' = _get_recent_commits(tcall)
    /\ UNCHANGED tcall

SearchRepositories ==
    /\ tcall.op = "search_repositories"
    /\ tret = NotCalled
    /\ tret' = _search_repositories(tcall)
    /\ UNCHANGED tcall

\* ---------------------------------------------------------- specifications

\* One message at a time in one conversation: every caller, every message and
\* every stream.
Init == BridgeInit /\ PartsIdle /\ ToolsIdle

Next ==
    \/ \E i \in Inv : Execute(i, Requests({"ctx1"}, BOOLEAN, Messages), Streams, FALSE) /\ UNCHANGED <<partVars, toolVars>>
    \/ \E i \in Inv : Submit(i) /\ UNCHANGED <<partVars, toolVars>>
    \/ \E i \in Inv : StartWork(i) /\ UNCHANGED <<partVars, toolVars>>
    \/ \E i \in Inv : ConvertMessage(i) /\ UNCHANGED <<partVars, toolVars>>
    \/ \E i \in Inv : GetSession(i) /\ UNCHANGED <<partVars, toolVars>>
    \/ \E i \in Inv : CreateSession(i) /\ UNCHANGED <<partVars, toolVars>>
    \/ \E i \in Inv : RunAsync(i) /\ UNCHANGED <<partVars, toolVars>>
    \/ \E i \in Inv : NextEvent(i) /\ UNCHANGED <<partVars, toolVars>>
    \/ \E i \in Inv : Complete(i) /\ UNCHANGED <<partVars, toolVars>>
    \/ \E i \in Inv : Exit(i) /\ UNCHANGED <<partVars, toolVars>>
    \/ \E i \in Inv : Cancel(i) /\ UNCHANGED <<partVars, toolVars>>

Spec == Init /\ [][Next]_vars

\* The part bridge on one input.
InitParts == BridgeInit /\ PartsInit /\ ToolsIdle

NextParts ==
    \/ ConvertIn /\ UNCHANGED <<bridgeVars, toolVars>>
    \/ ConvertBack /\ UNCHANGED <<bridgeVars, toolVars>>

SpecParts == InitParts /\ [][NextParts]_vars

\* One tool call.
InitTools == BridgeInit /\ PartsIdle /\ ToolsInit

NextTools ==
    \/ GetUserRepositories /\ UNCHANGED <<bridgeVars, partVars>>
    \/ GetRecentCommits /\ UNCHANGED <<bridgeVars, partVars>>
    \/ SearchRepositories /\ UNCHANGED <<bridgeVars, partVars>>

SpecTools == InitTools /\ [][NextTools]_vars

\* The session store over messages of every conversation and caller. The run
\* of each message ends at once or gives its final response at once: the stream
\* does not touch the store.
SessionStreams == {<<>>, <<FinalText>>}

\* One message at a time.
NextSessions ==
    \/ \E i \in Inv : Execute(i, Requests(Contexts, BOOLEAN, Messages), SessionStreams, FALSE) /\ UNCHANGED <<partVars, toolVars>>
    \/ \E i \in Inv : Submit(i) /\ UNCHANGED <<partVars, toolVars>>
    \/ \E i \in Inv : StartWork(i) /\ UNCHANGED <<partVars, toolVars>>
    \/ \E i \in Inv : ConvertMessage(i) /\ UNCHANGED <<partVars, toolVars>>
    \/ \E i \in Inv : GetSession(i) /\ UNCHANGED <<partVars, toolVars>>
    \/ \E i \in Inv : CreateSession(i) /\ UNCHANGED <<partVars, toolVars>>
    \/ \E i \in Inv : RunAsync(i) /\ UNCHANGED <<partVars, toolVars>>
    \/ \E i \in Inv : NextEvent(i) /\ UNCHANGED <<partVars, toolVars>>
    \/ \E i \in Inv : Complete(i) /\ UNCHANGED <<partVars, toolVars>>
    \/ \E i \in Inv : Exit(i) /\ UNCHANGED <<partVars, toolVars>>
    \/ \E i \in Inv : Cancel(i) /\ UNCHANGED <<partVars, toolVars>>

SpecSessions == Init /\ [][NextSessions]_vars

\* First text messages of tasks handled concurrently: the coroutines interleave
\* at every await.
NextRace ==
    \/ \E i \in Inv : Execute(i, Requests(Contexts, {FALSE}, {TextMessage}), SessionStreams, TRUE) /\ UNCHANGED <<partVars, toolVars>>
    \/ \E i \in Inv : Submit(i) /\ UNCHANGED <<partVars, toolVars>>
    \/ \E i \in Inv : StartWork(i) /\ UNCHANGED <<partVars, toolVars>>
    \/ \E i \in Inv : ConvertMessage(i) /\ UNCHANGED <<partVars, toolVars>>
    \/ \E i \in Inv : GetSession(i) /\ UNCHANGED <<partVars, toolVars>>
    \/ \E i \in Inv : CreateSession(i) /\ UNCHANGED <<partVars, toolVars>>
    \/ \E i \in Inv : RunAsync(i) /\ UNCHANGED <<partVars, toolVars>>
    \/ \E i \in Inv : NextEvent(i) /\ UNCHANGED <<partVars, toolVars>>
    \/ \E i \in Inv : Complete(i) /\ UNCHANGED <<partVars, toolVars>>
    \/ \E i \in Inv : Exit(i) /\ UNCHANGED <<partVars, toolVars>>
    \/ \E i \in Inv : Cancel(i) /\ UNCHANGED <<partVars, toolVars>>

SpecRace == Init /\ [][NextRace]_vars

\* ------------------------------------------------------------ claims, helpers
Min(S) == CHOOSE x \in S : \A y \in S : x <= y
Finals(s) == {n \in DOMAIN s : s[n].final}
\* The position of the first final-response event of a stream, 0 when it has none.
FirstFinal(s) == IF Finals(s) = {} THEN 0 ELSE Min(Finals(s))
\* The positions of a log whose emission is a status update of the given state.
StatusAt(l, state) == {k \in DOMAIN l : l[k].kind = "status" /\ l[k].state = state}
CausedBy(l, n) == {k \in DOMAIN l : l[k].ev = n}
Started(i) == pc[i] \notin {"idle", "begin", "start_work"}

\* C1: once the first final-response event of the stream is reached, its
\* converted parts are published as an artifact, then Completed is emitted, and
\* nothing more is consumed: no event after it causes an emission, there is one
\* Completed, and it is the last emission of the invocation.
C1_FinalResponseEndsRun ==
    \A i \in Inv :
        LET f == FirstFinal(stream[i])
            l == log[i]
        IN  /\ f > 0 => pos[i] <= f
            /\ \A k \in DOMAIN l : l[k].ev <= pos[i] /\ (f > 0 => l[k].ev <= f)
            /\ \A k \in StatusAt(l, "completed") : k = Len(l)
            /\ (f > 0 /\ pos[i] = f /\ pc[i] \in {"complete", "done"}) =>
                    /\ CausedBy(l, f) # {}
                    /\ l[Min(CausedBy(l, f))] =
                         Artifact(convert_genai_parts_to_a2a(stream[i][f].parts).parts, f)
            /\ (f > 0 /\ pos[i] = f /\ pc[i] = "complete") => Cardinality(CausedBy(l, f)) = 1
            /\ (f > 0 /\ pos[i] = f /\ pc[i] = "done") =>
                    /\ Cardinality(CausedBy(l, f)) = 2
                    /\ l[Len(l)] = Status("completed", FALSE, <<>>, f)
                    /\ l[Len(l) - 1].kind = "artifact"

\* An invocation has returned after its final response and left events of the
\* stream behind it.
C1_Witness ==
    \E i \in Inv :
        /\ pc[i] = "done"
        /\ FirstFinal(stream[i]) > 0
        /\ FirstFinal(stream[i]) < Len(stream[i])
        /\ log[i][Len(log[i])].state = "completed"

\* C2: Submitted is emitted exactly when the request carries no current task;
\* the pre-run Working marker is emitted exactly once either way, after
\* Submitted when both are emitted, and before the session is resolved or any
\* event of the run is consumed.
C2_SubmittedThenWorking ==
    \A i \in Inv :
        LET l == log[i]
            head == IF req[i].current_task
                    THEN <<Status("working", FALSE, <<>>, 0)>>
                    ELSE <<Status("submitted", FALSE, <<>>, 0), Status("working", FALSE, <<>>, 0)>>
        IN  /\ pc[i] \in {"idle", "begin"} => l = <<>>
            /\ pc[i] = "start_work" => l = <<Status("submitted", FALSE, <<>>, 0)>>
            /\ ~Started(i) => sess[i] = NoSession /\ pos[i] = 0
            /\ Started(i) =>
                /\ Len(l) >= Len(head)
                /\ SubSeq(l, 1, Len(head)) = head
                /\ Cardinality(StatusAt(l, "submitted")) = (IF req[i].current_task THEN 0 ELSE 1)
                /\ Cardinality({k \in StatusAt(l, "working") : ~l[k].message}) = 1

\* A message for an existing task has reached the run without a Submitted.
C2_Witness ==
    \E i \in Inv :
        /\ req[i].current_task
        /\ pc[i] = "loop"
        /\ sess[i] # NoSession
        /\ log[i] = <<Status("working", FALSE, <<>>, 0)>>

\* C3: every non-final event the loop has consumed caused exactly one Working
\* update carrying its converted parts when it requests no function call, and
\* no emission at all when it requests one; the emissions follow the order of
\* the events.
C3_InterimUpdates ==
    \A i \in Inv :
        LET l == log[i] IN
        /\ \A n \in 1..pos[i] :
            LET e == stream[i][n] IN
            ~e.final =>
                IF e.calls THEN CausedBy(l, n) = {}
                ELSE /\ Cardinality(CausedBy(l, n)) = 1
                     /\ \A k \in CausedBy(l, n) :
                          l[k] = Status("working", TRUE,
                                        convert_genai_parts_to_a2a(e.parts).parts, n)
        /\ \A a, b \in DOMAIN l : a < b => l[a].ev <= l[b].ev

\* The loop has consumed a function-call event and then an interim one.
C3_Witness ==
    \E i \in Inv :
        /\ pos[i] = 2
        /\ stream[i][1] = ToolCall
        /\ stream[i][2] = InterimFile
        /\ Len(log[i]) >= 1
        /\ log[i][Len(log[i])].ev = 2

\* The scenario of C4: one interim event without function calls, then the final
\* response, and execute has returned.
C4_Scenario(i) ==
    /\ pc[i] = "done"
    /\ Len(stream[i]) = 2
    /\ ~stream[i][1].final /\ ~stream[i][1].calls
    /\ stream[i][2].final

\* C4 as stated: in that scenario exactly one Working emission precedes the
\* terminal Completed.
C4_OneWorking ==
    \A i \in Inv : C4_Scenario(i) => Cardinality(StatusAt(log[i], "working")) = 1

\* C4, amended: in that scenario exactly two Working emissions precede the
\* terminal Completed, the pre-run marker and the update of the interim event.
C4_TwoWorking ==
    \A i \in Inv :
        C4_Scenario(i) =>
            LET l == log[i]
                w == StatusAt(l, "working")
            IN  /\ Cardinality(w) = 2
                /\ Cardinality({k \in w : ~l[k].message /\ l[k].ev = 0}) = 1
                /\ Cardinality({k \in w : l[k].message /\ l[k].ev = 1}) = 1
                /\ StatusAt(l, "completed") = {Len(l)}
                /\ \A k \in w : k < Len(l)

C4_Witness ==
    \E i \in Inv :
        /\ C4_Scenario(i)
        /\ req[i].message = TextMessage
        /\ ~req[i].call_context.set
        /\ sess[i] = Key("anonymous", req[i].context_id)

\* The state of the task as its status updates leave it.
TaskState(i) ==
    LET st == {k \in DOMAIN log[i] : log[i][k].kind = "status"} IN
    IF st = {} THEN "None" ELSE log[i][CHOOSE k \in st : \A j \in st : j <= k].state

\* C5: a cancel, whatever the state of the task and of a running execute, raises
\* the unsupported-operation error and changes nothing else: no emission, no
\* change of the task's state, of a session or of the run.
C5_CancelUnsupported ==
    [][\A i \in Inv :
          cancelErr'[i] \notin {cancelErr[i], "None"} =>
              /\ cancelErr'[i] = "UnsupportedOperationError"
              /\ UNCHANGED <<pc, req, stream, pos, new_message, sess, err, log, sessions>>
              /\ TaskState(i)' = TaskState(i)]_vars

\* One task was cancelled before it started and another while its execute stood
\* in the loop with an update already published.
C5_Witness ==
    \E i, j \in Inv :
        /\ cancelErr[i] = "UnsupportedOperationError" /\ pc[i] = "idle"
        /\ cancelErr[j] = "UnsupportedOperationError" /\ pc[j] = "loop"
        /\ TaskState(j) = "working" /\ pos[j] > 0

\* The user id the claim names: the username of an authenticated caller,
\* "anonymous" for every other call.
CallerId(r) ==
    IF r.call_context.set /\ r.call_context.is_authenticated
    THEN r.call_context.username ELSE "anonymous"
Running(i) == pc[i] \in {"run_async", "loop", "complete", "done"}
Keys(store) == {s.key : s \in store}

\* C6: over messages handled one after another, the session of a run has the key
\* (app_name, user_id, context_id) with the caller's username or "anonymous" as
\* user_id; create_session is called, and a session stored, only when the store
\* holds none for that key; a message whose key has a session runs on that one;
\* no session is ever removed.
C6_GetOrCreate ==
    [][\A i \in Inv :
          /\ Running(i)' =>
                /\ sess'[i] = <<AppName, CallerId(req'[i]), req'[i].context_id>>
                /\ Cardinality({s \in sessions' : s.key = sess'[i]}) = 1
          /\ (pc[i] = "get_session" /\ pc'[i] # "get_session") =>
                IF SessionKey(i) \in Keys(sessions)
                THEN pc'[i] = "run_async" /\ sessions' = sessions /\ sess'[i] = SessionKey(i)
                ELSE pc'[i] = "create_session"
          /\ (pc[i] = "create_session" /\ pc'[i] # "create_session") =>
                /\ SessionKey(i) \notin Keys(sessions)
                /\ sessions' = sessions \cup {Session(SessionKey(i), FALSE)}
          /\ Keys(sessions) \subseteq Keys(sessions')
          /\ \A s \in sessions : s.used => s \in sessions']_vars

\* A later message of a conversation is about to run on the session an earlier
\* message created and used, while the store also holds another key's session.
C6_Witness ==
    \E i \in Inv :
        /\ pc[i] = "run_async"
        /\ sess[i] = Key("alice", "ctx2")
        /\ Session(sess[i], TRUE) \in sessions
        /\ Session(Key("anonymous", "ctx1"), TRUE) \in sessions

RoundTripPart(p) ==
    /\ p.wrapper = "Part"
    /\ \/ p.type = "TextPart" /\ p.text \notin {"None", ""}
       \/ p.type = "FilePart" /\ p.file.type \in {"FileWithUri", "FileWithBytes"}

\* C8: a sequence of non-empty text, file-by-uri and file-by-bytes parts
\* converted to model parts and back is the same sequence, element for element
\* and field for field, wrapper included.
C8_RoundTrip ==
    (/\ pin.side = "a2a"
     /\ \A n \in DOMAIN pin.parts : RoundTripPart(pin.parts[n])
     /\ pmid # NotRun) =>
        /\ pmid.st = "ok"
        /\ pout # NotRun => pout = Return(pin.parts)

\* A model part with no text, no file reference and no inline data.
HasNothing(p) == p.text \in {"None", ""} /\ ~p.file_data.set /\ ~p.inline_data.set
\* q is the protocol part of the model part p, whatever its wrapper.
ConvertedFrom(q, p) ==
    IF p.text \notin {"None", ""}
    THEN q.type = "TextPart" /\ q.text = p.text /\ q.file = NoFile
    ELSE IF p.file_data.set
    THEN /\ q.type = "FilePart" /\ q.text = "None"
         /\ q.file = FileWithUri(p.file_data.file_uri, p.file_data.mime_type)
    ELSE /\ q.type = "FilePart" /\ q.text = "None"
         /\ q.file = FileWithBytes(p.inline_data.data, p.inline_data.mime_type)

\* C9: convert_genai_parts_to_a2a raises on no sequence of model parts; the parts
\* with no text, no file reference and no inline data are dropped, and the
\* output is the conversion of the other parts, one for one and in their order
\* (so a sequence of empty parts gives an empty output).
C9_EmptyPartsDropped ==
    (pin.side = "genai" /\ pmid # NotRun) =>
        LET rest == SelectSeq(pin.parts, LAMBDA p : ~HasNothing(p)) IN
        /\ pmid.st = "ok"
        /\ Len(pmid.parts) = Len(rest)
        /\ \A k \in DOMAIN rest : ConvertedFrom(pmid.parts[k], rest[k])

\* Two parts, the first one empty, were converted to the one part of the second.
C9_Witness ==
    /\ pin.side = "genai"
    /\ Len(pin.parts) = 2
    /\ HasNothing(pin.parts[1])
    /\ pin.parts[2].inline_data.set /\ pin.parts[2].text = ""
    /\ pmid.st = "ok"
    /\ Len(pmid.parts) = 1

OperationPrefix(op) ==
    CASE op = "get_user_repositories" -> "Failed to get repositories: "
      [] op = "get_recent_commits" -> "Failed to get commits: "
      [] op = "search_repositories" -> "Failed to search repositories: "

\* C10: whatever step of a tool call the GitHub client fails at, the tool
\* returns an envelope with status "error" whose error_message starts with the
\* operation's prefix; a call without failure returns an envelope with status
\* "success".
C10_Envelope ==
    tret # NotCalled =>
        /\ tret.type = "dict"
        /\ IF tcall.fail # "None"
           THEN tret.status = "error" /\ tret.error_message.prefix = OperationPrefix(tcall.op)
           ELSE tret.status = "success"

ArtifactsAt(l) == {k \in DOMAIN l : l[k].kind = "artifact"}

\* C11: an invocation marks its task Completed only when the stream of its run
\* holds a final-response event, and an invocation that has returned has done so
\* exactly when it does: once, right after the one artifact it published. When
\* the stream ends without a final response, execute returns without an error,
\* with no artifact and no terminal status, and the task stays Working.
C11_CompletedIffFinal ==
    \A i \in Inv :
        LET l == log[i]
            c == StatusAt(l, "completed")
            a == ArtifactsAt(l)
        IN  /\ c # {} => Finals(stream[i]) # {}
            /\ Cardinality(c) <= 1 /\ Cardinality(a) <= 1
            /\ \A k \in c : k > 1 /\ a = {k - 1}
            /\ pc[i] = "done" =>
                /\ err[i] = "None"
                /\ IF Finals(stream[i]) # {}
                   THEN Cardinality(c) = 1 /\ Cardinality(a) = 1 /\ TaskState(i) = "completed"
                   ELSE /\ c = {} /\ a = {}
                        /\ pos[i] = Len(stream[i])
                        /\ TaskState(i) = "working"

\* execute has returned from a run that gave an update and a function call and
\* then ended: nothing but Working was published.
C11_Witness ==
    \E i \in Inv :
        /\ pc[i] = "done"
        /\ stream[i] = <<InterimText, ToolCall>>
        /\ pos[i] = 2
        /\ ArtifactsAt(log[i]) = {}
        /\ TaskState(i) = "working"

====
